---- MODULE Spec2Model ----
(***************************************************************************)
(* Model of pkg/agent/ssh/server.go: the session dispatcher (Server.Start's *)
(* Handler), the interactive handler (handlePty), the one-shot handler     *)
(* (handleNonPty), and the forwarding request table (RequestHandlers).     *)
(***************************************************************************)
EXTENDS Integers, Sequences, FiniteSets, TLC

(* ------------------------------ bounds --------------------------------- *)
\* number of sessions the server accepts in one run
NumSessions == 2
\* number of resize events a caller sends on one session
MaxWin == 2
\* number of concurrent forwarding-request callers
NumCallers == 2

Sessions == 1..NumSessions
Callers == 1..NumCallers

\* window geometries a caller may send (abstract ids of {columns, rows})
Sizes == {"80x24", "100x40"}
\* geometry of a pty that no SetPtySize call has touched yet
NoSize == "unset"

\* s.WorkspaceDir and s.DefaultWorkspaceDir (Server fields)
WorkspaceDir == "workspace"
DefaultWorkspaceDir == "default"

\* no exit status reported to the caller
NoStatus == -1

Subsystems == {"", "sftp", "other"}
RawCommands == {"", "cmd"}

VARIABLES
  pc,            \* per session: position of the handler's goroutine
  sess,          \* per session: what the transport reports (Subsystem, RawCommand, Pty, AgentRequested)
  invoked,       \* per session: the handlers the dispatcher called
  exitStatus,    \* per session: status passed to session.Exit, or NoStatus
  dirState,      \* filesystem: what os.Stat(WorkspaceDir) returns now
  statSeen,      \* per session: dirState at the moment of the handler's os.Stat
  cmdDir,        \* per session: cmd.Dir
  agentListener, \* per session: "none" | "failed" | "open" | "closed"
  authSock,      \* per session: SSH_AUTH_SOCK was appended to cmd.Env
  spawnTried,    \* per session: Start(cmd) / cmd.Start() was called
  proc,          \* per session: "none" | "running" | "exited" | "reaped"
  procCode,      \* per session: exit code of the process once exited
  waitErr,       \* per session: what cmd.Wait() returned: "none" | "nil" | "exit" | "io"
  pty,           \* per session: "none" | "open" | "closed"
  ptySize,       \* per session: geometry of the pty
  winCh,         \* per session: resize events queued on the session's channel
  winLog,        \* per session: every resize event the caller sent, in order
  applied,       \* per session: every geometry SetPtySize applied to a live pty
  ptyOut,        \* per session: the process has written output not yet copied
  stdinCopy,     \* per session: background session->stdin copy "none" | "running" | "ended"
  stdinPipe,     \* per session: "none" | "open" | "closed"
  sigRelay,      \* per session: session.Signals(sigs) registered and relay running
  streamClosed,  \* per session: the caller closed the session stream
  sigs,          \* per session: signals queued on the channel given to session.Signals
  sigLoop,       \* per session: the signal relay goroutine "none" | "running" | "ended"
  sigHist,       \* per session: "none" | "failed" (a signal was not delivered) | "recovered" (one was delivered after that)
  exitCalls,     \* per session: number of session.Exit calls
  forwards,      \* per handler kind: the addresses recorded as listening
  lnCount,       \* per kind and address: live listeners bound to the address
  mutex,         \* per handler kind: caller holding the table's lock, or 0
  cpc,           \* per caller: position in HandleSSHRequest
  creq,          \* per caller: the request being served, NoRequest when none is
  cseen,         \* per caller: what the table said when the caller looked it up
  creply,        \* per caller: the reply to the last request
  phase,         \* progress of the followed address through open, open, cancel, open
  rejected,      \* what the most recent rejected request asked for: "none" | "open" | "cancel"
  hostEnv,       \* os.Environ(): the environment the server itself runs in
  cmdEnv,        \* cmd.Env as the handler last built it
  envFor         \* what that environment was built for: the handler, ptyReq.Term, l.Addr()

sessVars == <<pc, sess, invoked, exitStatus, dirState, statSeen, cmdDir,
              agentListener, authSock, spawnTried, proc, procCode, waitErr, pty,
              ptySize, winCh, winLog, applied, ptyOut, stdinCopy, stdinPipe, sigRelay,
              streamClosed, sigs, sigLoop, sigHist, exitCalls>>
fwdVars == <<forwards, lnCount, mutex, cpc, creq, cseen, creply, phase, rejected>>
envVars == <<hostEnv, cmdEnv, envFor>>
vars == <<sessVars, fwdVars, envVars>>

NoSession == [subsystem |-> "", rawCommand |-> "", isPty |-> FALSE,
              term |-> "", agentRequested |-> FALSE]

(* ------------------------- Session Dispatcher -------------------------- *)

\* faulty variant: the pty test ignores the raw command
HandlerNoCommandTest(ss, rawCommand, isPty) ==
  IF ss = "sftp" THEN "sftpHandler"
  ELSE IF ss # "" THEN "exit1"
  ELSE IF isPty THEN "handlePty" ELSE "handleNonPty"

\* faulty variant: an unknown subsystem falls through to the shell dispatch
HandlerFallThrough(ss, rawCommand, isPty) ==
  IF ss = "sftp" THEN "sftpHandler"
  ELSE IF rawCommand = "" /\ isPty THEN "handlePty" ELSE "handleNonPty"

\* the switch on session.Subsystem() and the pty test of Server.Start's Handler
Handler(ss, rawCommand, isPty) ==
  IF ss = "sftp" THEN "sftpHandler"
  ELSE IF ss # "" THEN "exit1"
  ELSE IF rawCommand = "" /\ isPty THEN "handlePty" ELSE "handleNonPty"

\* first position of each handler
EntryPc(h) ==
  CASE h = "handlePty" -> "pty_stat"
    [] h = "handleNonPty" -> "np_agent"
    [] h = "sftpHandler" -> "sftp"
    [] OTHER -> "done"

\* The handlers of different sessions share nothing but the filesystem, so the
\* model follows one live session at a time: a session is accepted once its
\* predecessor's handler has returned, and the predecessor is then retired,
\* keeping only the directory it resolved, until its own successor retires.
Retire(f, s, init) == IF s = 1 THEN f ELSE [f EXCEPT ![s - 1] = init]
Forget(f, s, init) == IF s <= 2 THEN f ELSE [f EXCEPT ![s - 2] = init]

\* a new session arrives and the Handler callback dispatches it
Accept(s) ==
  /\ pc[s] = "idle"
  /\ IF s = 1 THEN TRUE ELSE pc[s - 1] = "done"
  /\ \E ss \in Subsystems, raw \in RawCommands, isPty \in BOOLEAN, ag \in BOOLEAN :
       LET h == Handler(ss, raw, isPty) IN
       /\ sess' = [Retire(sess, s, NoSession) EXCEPT ![s] =
                     [subsystem |-> ss, rawCommand |-> raw, isPty |-> isPty,
                      term |-> IF isPty THEN "xterm" ELSE "", agentRequested |-> ag]]
       /\ invoked' = [Retire(invoked, s, {}) EXCEPT ![s] =
                        IF h = "exit1" THEN {} ELSE {h}]
       /\ exitStatus' = [Retire(exitStatus, s, NoStatus) EXCEPT ![s] =
                           IF h = "exit1" THEN 1 ELSE @]
       /\ exitCalls' = [Retire(exitCalls, s, 0) EXCEPT ![s] =
                          IF h = "exit1" THEN 1 ELSE @]
       /\ pc' = [Retire(pc, s, "retired") EXCEPT ![s] = EntryPc(h)]
  /\ agentListener' = Retire(agentListener, s, "none")
  /\ authSock' = Retire(authSock, s, FALSE)
  /\ spawnTried' = Retire(spawnTried, s, FALSE)
  /\ proc' = Retire(proc, s, "none")
  /\ procCode' = Retire(procCode, s, 0)
  /\ waitErr' = Retire(waitErr, s, "none")
  /\ pty' = Retire(pty, s, "none")
  /\ ptySize' = Retire(ptySize, s, NoSize)
  /\ winCh' = Retire(winCh, s, <<>>)
  /\ winLog' = Retire(winLog, s, <<>>)
  /\ applied' = Retire(applied, s, <<>>)
  /\ ptyOut' = Retire(ptyOut, s, FALSE)
  /\ stdinCopy' = Retire(stdinCopy, s, "none")
  /\ stdinPipe' = Retire(stdinPipe, s, "none")
  /\ sigRelay' = Retire(sigRelay, s, FALSE)
  /\ streamClosed' = Retire(streamClosed, s, FALSE)
  /\ sigs' = Retire(sigs, s, <<>>)
  /\ sigLoop' = Retire(sigLoop, s, "none")
  /\ sigHist' = Retire(sigHist, s, "none")
  /\ statSeen' = Forget(statSeen, s, "none")
  /\ cmdDir' = Forget(cmdDir, s, "")
  /\ UNCHANGED dirState
  /\ UNCHANGED <<fwdVars, envVars>>

\* sftpHandler: serves the stream until it ends; opaque to this model
SftpServe(s) ==
  /\ pc[s] = "sftp"
  /\ pc' = [pc EXCEPT ![s] = "done"]
  /\ UNCHANGED <<sess, invoked, exitStatus, dirState, statSeen, cmdDir,
                 agentListener, authSock, spawnTried, proc, procCode, waitErr, pty,
                 ptySize, winCh, winLog, applied, ptyOut, stdinCopy, stdinPipe,
                 sigRelay, streamClosed>>
  /\ UNCHANGED <<sigs, sigLoop, sigHist, exitCalls>>
  /\ UNCHANGED <<fwdVars, envVars>>

(* --------------------- working directory resolution -------------------- *)

\* faulty variant: the configured directory is used without looking
ResolveDirNoStat(st) == WorkspaceDir

\* cmd.Dir = s.WorkspaceDir; if os.IsNotExist(Stat error) then DefaultWorkspaceDir
ResolveDir(st) ==
  IF st = "absent" THEN DefaultWorkspaceDir ELSE WorkspaceDir

\* the directory the handler resolves, given what Stat returns now
\* (handlePty lines 83-87, handleNonPty lines 143-146)
StatStep(s, from, to) ==
  /\ pc[s] = from
  /\ cmdDir' = [cmdDir EXCEPT ![s] = ResolveDir(dirState)]
  /\ statSeen' = [statSeen EXCEPT ![s] = dirState]
  /\ pc' = [pc EXCEPT ![s] = to]
  /\ UNCHANGED <<sess, invoked, exitStatus, dirState, agentListener, authSock,
                 spawnTried, proc, procCode, waitErr, pty, ptySize, winCh, winLog,
                 applied, ptyOut, stdinCopy, stdinPipe, sigRelay, streamClosed>>
  /\ UNCHANGED <<sigs, sigLoop, sigHist, exitCalls>>
  /\ UNCHANGED <<fwdVars, envVars>>

(* ----------------------------- agent relay ----------------------------- *)

\* where the handler goes when ssh.NewAgentListener() returns an error:
\* the error branch logs and returns from the handler
AfterAgentError(next) == "done"

\* if ssh.AgentRequested(session) { l, err := ssh.NewAgentListener() ... }
\* (handlePty lines 89-98, handleNonPty lines 132-141)
AgentStep(s, from, to) ==
  /\ pc[s] = from
  /\ IF ~sess[s].agentRequested
     THEN /\ pc' = [pc EXCEPT ![s] = to]
          /\ UNCHANGED <<agentListener, authSock>>
     ELSE \E ok \in BOOLEAN :
            IF ok
            THEN /\ agentListener' = [agentListener EXCEPT ![s] = "open"]
                 /\ authSock' = [authSock EXCEPT ![s] = TRUE]
                 /\ pc' = [pc EXCEPT ![s] = to]
            ELSE /\ agentListener' = [agentListener EXCEPT ![s] = "failed"]
                 /\ pc' = [pc EXCEPT ![s] = AfterAgentError(to)]
                 /\ UNCHANGED authSock
  /\ UNCHANGED <<sess, invoked, exitStatus, dirState, statSeen, cmdDir, spawnTried,
                 proc, procCode, waitErr, pty, ptySize, winCh, winLog, applied,
                 ptyOut, stdinCopy, stdinPipe, sigRelay, streamClosed>>
  /\ UNCHANGED <<sigs, sigLoop, sigHist, exitCalls>>
  /\ UNCHANGED <<fwdVars, envVars>>

\* faulty variant: the deferred close of the listener is missing
DeferredCloseMissing(l) == l

\* defer l.Close(): the listener, if one was created, is closed on return
DeferredClose(l) == IF l = "open" THEN "closed" ELSE l

(* ------------------------- handlePty (interactive) --------------------- *)

PtyStat(s) == StatStep(s, "pty_stat", "pty_agent")

PtyAgent(s) == AgentStep(s, "pty_agent", "pty_start")

\* f, err := Start(cmd); on error return; defer f.Close(); start both goroutines
PtyStart(s) ==
  /\ pc[s] = "pty_start"
  /\ spawnTried' = [spawnTried EXCEPT ![s] = TRUE]
  /\ \E ok \in BOOLEAN :
       IF ok
       THEN /\ pty' = [pty EXCEPT ![s] = "open"]
            /\ proc' = [proc EXCEPT ![s] = "running"]
            /\ stdinCopy' = [stdinCopy EXCEPT ![s] = "running"]
            /\ pc' = [pc EXCEPT ![s] = "pty_copy"]
            /\ UNCHANGED agentListener
       ELSE /\ agentListener' = [agentListener EXCEPT ![s] = DeferredClose(@)]
            /\ pc' = [pc EXCEPT ![s] = "done"]
            /\ UNCHANGED <<pty, proc, stdinCopy>>
  /\ UNCHANGED <<sess, invoked, exitStatus, dirState, statSeen, cmdDir, authSock,
                 procCode, waitErr, ptySize, winCh, winLog, applied, ptyOut,
                 stdinPipe, sigRelay, streamClosed>>
  /\ UNCHANGED <<sigs, sigLoop, sigHist, exitCalls>>
  /\ UNCHANGED <<fwdVars, envVars>>

\* faulty variant: the relay takes the newest queued event first
RelayTakeNewest(ch) == <<ch[Len(ch)], SubSeq(ch, 1, Len(ch) - 1)>>

\* for win := range winCh: the event received and what stays queued
RelayTake(ch) == <<Head(ch), Tail(ch)>>

\* go func() { for win := range winCh { SetPtySize(f, win) } }()
\* the goroutine outlives the handler; SetPtySize on a closed pty changes nothing
ResizeRelay(s) ==
  /\ pty[s] # "none"
  /\ winCh[s] # <<>>
  /\ LET t == RelayTake(winCh[s]) IN
       /\ winCh' = [winCh EXCEPT ![s] = t[2]]
       /\ IF pty[s] = "open"
          THEN /\ ptySize' = [ptySize EXCEPT ![s] = t[1]]
               /\ applied' = [applied EXCEPT ![s] = Append(@, t[1])]
          ELSE UNCHANGED <<ptySize, applied>>
  /\ UNCHANGED <<pc, sess, invoked, exitStatus, dirState, statSeen, cmdDir,
                 agentListener, authSock, spawnTried, proc, procCode, waitErr, pty,
                 winLog, ptyOut, stdinCopy, stdinPipe, sigRelay, streamClosed>>
  /\ UNCHANGED <<sigs, sigLoop, sigHist, exitCalls>>
  /\ UNCHANGED <<fwdVars, envVars>>

\* faulty variant: a read of the pty never fails, whatever became of the shell
PtyReadNeverFails(out, p) == FALSE

\* the read of f inside io.Copy(session, f) fails once the shell is gone and
\* nothing it wrote is left to read
PtyReadFails(out, p) == ~out /\ p = "exited"

\* io.Copy(session, f): one read of the pty and the write of what was read;
\* the copy ends when the read fails (process gone) or the write fails
\* (stream closed), and the handler returns through its defers
PtyCopy(s) ==
  /\ pc[s] = "pty_copy"
  /\ \/ /\ ptyOut[s]
        /\ ~streamClosed[s]
        /\ ptyOut' = [ptyOut EXCEPT ![s] = FALSE]
        /\ UNCHANGED <<pc, pty, agentListener>>
     \/ /\ \/ ptyOut[s] /\ streamClosed[s]
           \/ PtyReadFails(ptyOut[s], proc[s])
        /\ ptyOut' = [ptyOut EXCEPT ![s] = FALSE]
        /\ pty' = [pty EXCEPT ![s] = "closed"]
        /\ agentListener' = [agentListener EXCEPT ![s] = DeferredClose(@)]
        /\ pc' = [pc EXCEPT ![s] = "done"]
  /\ UNCHANGED <<sess, invoked, exitStatus, dirState, statSeen, cmdDir, authSock,
                 spawnTried, proc, procCode, waitErr, ptySize, winCh, winLog,
                 applied, stdinCopy, stdinPipe, sigRelay, streamClosed>>
  /\ UNCHANGED <<sigs, sigLoop, sigHist, exitCalls>>
  /\ UNCHANGED <<fwdVars, envVars>>

(* ----------------------- handleNonPty (one-shot) ----------------------- *)

NonPtyAgent(s) == AgentStep(s, "np_agent", "np_stat")

NonPtyStat(s) == StatStep(s, "np_stat", "np_pipe")

\* stdinPipe, err := cmd.StdinPipe(); on error return; go io.Copy(stdinPipe, session)
NonPtyPipe(s) ==
  /\ pc[s] = "np_pipe"
  /\ \E ok \in BOOLEAN :
       IF ok
       THEN /\ stdinPipe' = [stdinPipe EXCEPT ![s] = "open"]
            /\ stdinCopy' = [stdinCopy EXCEPT ![s] = "running"]
            /\ pc' = [pc EXCEPT ![s] = "np_start"]
            /\ UNCHANGED agentListener
       ELSE /\ agentListener' = [agentListener EXCEPT ![s] = DeferredClose(@)]
            /\ pc' = [pc EXCEPT ![s] = "done"]
            /\ UNCHANGED <<stdinPipe, stdinCopy>>
  /\ UNCHANGED <<sess, invoked, exitStatus, dirState, statSeen, cmdDir, authSock,
                 spawnTried, proc, procCode, waitErr, pty, ptySize, winCh, winLog,
                 applied, ptyOut, sigRelay, streamClosed>>
  /\ UNCHANGED <<sigs, sigLoop, sigHist, exitCalls>>
  /\ UNCHANGED <<fwdVars, envVars>>

\* faulty variant: a failed start is reported like a failed wait
StartErrorStatusAsWait(cur) == 127

\* err = cmd.Start(); if err != nil { log; return }: the status is left as it was
StartErrorStatus(cur) == cur

\* err = cmd.Start(); on error return; sigs := make(...); session.Signals(sigs);
\* defer {session.Signals(nil); close(sigs)}; go relay.  A failed Start closes
\* the pipe that StdinPipe made.
NonPtyStart(s) ==
  /\ pc[s] = "np_start"
  /\ spawnTried' = [spawnTried EXCEPT ![s] = TRUE]
  /\ \E ok \in BOOLEAN :
       IF ok
       THEN /\ proc' = [proc EXCEPT ![s] = "running"]
            /\ sigRelay' = [sigRelay EXCEPT ![s] = TRUE]
            /\ sigLoop' = [sigLoop EXCEPT ![s] = "running"]
            /\ pc' = [pc EXCEPT ![s] = "np_wait"]
            /\ UNCHANGED <<agentListener, exitStatus, stdinPipe>>
       ELSE /\ agentListener' = [agentListener EXCEPT ![s] = DeferredClose(@)]
            /\ exitStatus' = [exitStatus EXCEPT ![s] = StartErrorStatus(@)]
            /\ stdinPipe' = [stdinPipe EXCEPT ![s] = "closed"]
            /\ pc' = [pc EXCEPT ![s] = "done"]
            /\ UNCHANGED <<proc, sigRelay, sigLoop>>
  /\ UNCHANGED <<sess, invoked, dirState, statSeen, cmdDir, authSock, procCode,
                 waitErr, pty, ptySize, winCh, winLog, applied, ptyOut, stdinCopy,
                 streamClosed>>
  /\ UNCHANGED <<sigs, sigHist, exitCalls>>
  /\ UNCHANGED <<fwdVars, envVars>>

\* what cmd.Wait() returns for a process that exited with `code`, when copying
\* its output to the session did (ioErr) or did not fail
WaitResult(code, ioErr) ==
  IF code # 0 THEN "exit" ELSE IF ioErr THEN "io" ELSE "nil"

\* faulty variant: the process's own exit code is passed on
WaitStatusOwnCode(err, code) == code

\* if err != nil { session.Exit(127); return }; session.Exit(0)
WaitStatus(err, code) == IF err # "nil" THEN 127 ELSE 0

\* faulty variant: the return after session.Exit(127) is missing
WaitExitCallsNoReturn(err) == IF err # "nil" THEN 2 ELSE 1

\* the session.Exit calls after cmd.Wait(): Exit(127) and return, or Exit(0)
WaitExitCalls(err) == 1

\* faulty variant: the deferred session.Signals(nil) is missing
DeferredSignalsKept(registered) == registered

\* defer func() { session.Signals(nil); close(sigs) }()
DeferredSignals(registered) == FALSE

\* err = cmd.Wait(), which also closes the stdin pipe; report the status;
\* deferred: session.Signals(nil), close(sigs), l.Close()
NonPtyWait(s) ==
  /\ pc[s] = "np_wait"
  /\ proc[s] = "exited"
  /\ \E ioErr \in BOOLEAN :
       LET err == WaitResult(procCode[s], ioErr) IN
       /\ waitErr' = [waitErr EXCEPT ![s] = err]
       /\ exitStatus' = [exitStatus EXCEPT ![s] = WaitStatus(err, procCode[s])]
       /\ exitCalls' = [exitCalls EXCEPT ![s] = @ + WaitExitCalls(err)]
  /\ proc' = [proc EXCEPT ![s] = "reaped"]
  /\ stdinPipe' = [stdinPipe EXCEPT ![s] = "closed"]
  /\ sigRelay' = [sigRelay EXCEPT ![s] = DeferredSignals(@)]
  /\ agentListener' = [agentListener EXCEPT ![s] = DeferredClose(@)]
  /\ pc' = [pc EXCEPT ![s] = "done"]
  /\ UNCHANGED <<sess, invoked, dirState, statSeen, cmdDir, authSock, spawnTried,
                 procCode, pty, ptySize, winCh, winLog, applied, ptyOut, stdinCopy,
                 streamClosed>>
  /\ UNCHANGED <<sigs, sigLoop, sigHist>>
  /\ UNCHANGED <<fwdVars, envVars>>

\* sigs := make(chan ssh.Signal, 1)
SigCap == 1

\* the abstract signal names a caller may send: one the translator knows and
\* one it does not
SignalNames == {"INT", "NOSUCH"}

\* OsSignalFrom: the host signal for an abstract name, or none for an unknown one
OsSignalFrom(sig) == IF sig = "INT" THEN "SIGINT" ELSE "unsupported"

\* cmd.Process.Signal(signal): fails for no signal, for a process already
\* waited for, and whenever the host refuses (hostErr)
SignalFails(signal, p, hostErr) ==
  signal = "unsupported" \/ p = "reaped" \/ hostErr

\* faulty variant: the relay loop ends at the first signal it cannot deliver
RelayAfterSignalStops(err) == IF err THEN "ended" ELSE "running"

\* if err != nil { log.Warnf(...) }: the loop goes on to the next signal
RelayAfterSignal(err) == "running"

\* go func() { for sig := range sigs { ... cmd.Process.Signal(signal) ... } }()
SignalRelay(s) ==
  /\ sigLoop[s] = "running"
  /\ sigs[s] # <<>>
  /\ \E hostErr \in BOOLEAN :
       LET err == SignalFails(OsSignalFrom(Head(sigs[s])), proc[s], hostErr) IN
       /\ sigLoop' = [sigLoop EXCEPT ![s] = RelayAfterSignal(err)]
       /\ sigHist' = [sigHist EXCEPT ![s] =
                        IF err /\ @ = "none" THEN "failed"
                        ELSE IF ~err /\ @ = "failed" /\ proc[s] = "running"
                        THEN "recovered" ELSE @]
  /\ sigs' = [sigs EXCEPT ![s] = Tail(@)]
  /\ UNCHANGED <<pc, sess, invoked, exitStatus, dirState, statSeen, cmdDir,
                 agentListener, authSock, spawnTried, proc, procCode, waitErr, pty,
                 ptySize, winCh, winLog, applied, ptyOut, stdinCopy, stdinPipe,
                 sigRelay, streamClosed, exitCalls>>
  /\ UNCHANGED <<fwdVars, envVars>>

\* the range over sigs ends once the channel is closed and drained
SignalRelayEnd(s) ==
  /\ sigLoop[s] = "running"
  /\ pc[s] = "done"
  /\ sigs[s] = <<>>
  /\ sigLoop' = [sigLoop EXCEPT ![s] = "ended"]
  /\ UNCHANGED <<pc, sess, invoked, exitStatus, dirState, statSeen, cmdDir,
                 agentListener, authSock, spawnTried, proc, procCode, waitErr, pty,
                 ptySize, winCh, winLog, applied, ptyOut, stdinCopy, stdinPipe,
                 sigRelay, streamClosed, sigs, sigHist, exitCalls>>
  /\ UNCHANGED <<fwdVars, envVars>>

\* the background copy of the session's input: io.Copy(f, session) in handlePty,
\* io.Copy(stdinPipe, session) in handleNonPty, where the pipe is closed only
\* when the copy returned no error.  The copy ends at end-of-stream (the read
\* may also fail then), or with a write error once the reader side is gone.
StdinCopyEnd(s) ==
  /\ stdinCopy[s] = "running"
  /\ \E err \in BOOLEAN :
       /\ \/ streamClosed[s]
          \/ err /\ (proc[s] \in {"exited", "reaped"} \/ pty[s] = "closed")
       /\ stdinPipe' = [stdinPipe EXCEPT ![s] =
                          IF @ = "open" /\ ~err THEN "closed" ELSE @]
  /\ stdinCopy' = [stdinCopy EXCEPT ![s] = "ended"]
  /\ UNCHANGED <<pc, sess, invoked, exitStatus, dirState, statSeen, cmdDir,
                 agentListener, authSock, spawnTried, proc, procCode, waitErr, pty,
                 ptySize, winCh, winLog, applied, ptyOut, sigRelay, streamClosed>>
  /\ UNCHANGED <<sigs, sigLoop, sigHist, exitCalls>>
  /\ UNCHANGED <<fwdVars, envVars>>

(* ------------------ the caller, the process, the host ------------------ *)

OnShellPath(s) == invoked[s] \cap {"handlePty", "handleNonPty"} # {}

\* the caller sends a window-change; the transport queues it on winCh
SendResize(s) ==
  /\ invoked[s] = {"handlePty"}
  /\ ~streamClosed[s]
  /\ Len(winLog[s]) < MaxWin
  /\ \E w \in Sizes :
       /\ winCh' = [winCh EXCEPT ![s] = Append(@, w)]
       /\ winLog' = [winLog EXCEPT ![s] = Append(@, w)]
  /\ UNCHANGED <<pc, sess, invoked, exitStatus, dirState, statSeen, cmdDir,
                 agentListener, authSock, spawnTried, proc, procCode, waitErr, pty,
                 ptySize, applied, ptyOut, stdinCopy, stdinPipe, sigRelay,
                 streamClosed>>
  /\ UNCHANGED <<sigs, sigLoop, sigHist, exitCalls>>
  /\ UNCHANGED <<fwdVars, envVars>>

\* the caller sends a signal; the transport puts it on the registered channel
SendSignal(s) ==
  /\ sigRelay[s]
  /\ Len(sigs[s]) < SigCap
  /\ \E sig \in SignalNames : sigs' = [sigs EXCEPT ![s] = Append(@, sig)]
  /\ UNCHANGED <<pc, sess, invoked, exitStatus, dirState, statSeen, cmdDir,
                 agentListener, authSock, spawnTried, proc, procCode, waitErr, pty,
                 ptySize, winCh, winLog, applied, ptyOut, stdinCopy, stdinPipe,
                 sigRelay, streamClosed, sigLoop, sigHist, exitCalls>>
  /\ UNCHANGED <<fwdVars, envVars>>

\* the caller closes the session stream: reads of the session see end-of-stream
CloseStream(s) ==
  /\ OnShellPath(s)
  /\ ~streamClosed[s]
  /\ streamClosed' = [streamClosed EXCEPT ![s] = TRUE]
  /\ UNCHANGED <<pc, sess, invoked, exitStatus, dirState, statSeen, cmdDir,
                 agentListener, authSock, spawnTried, proc, procCode, waitErr, pty,
                 ptySize, winCh, winLog, applied, ptyOut, stdinCopy, stdinPipe,
                 sigRelay>>
  /\ UNCHANGED <<sigs, sigLoop, sigHist, exitCalls>>
  /\ UNCHANGED <<fwdVars, envVars>>

\* the shell writes output to its terminal
ProcWrite(s) ==
  /\ proc[s] = "running"
  /\ pty[s] = "open"
  /\ ~ptyOut[s]
  /\ ptyOut' = [ptyOut EXCEPT ![s] = TRUE]
  /\ UNCHANGED <<pc, sess, invoked, exitStatus, dirState, statSeen, cmdDir,
                 agentListener, authSock, spawnTried, proc, procCode, waitErr, pty,
                 ptySize, winCh, winLog, applied, stdinCopy, stdinPipe, sigRelay,
                 streamClosed>>
  /\ UNCHANGED <<sigs, sigLoop, sigHist, exitCalls>>
  /\ UNCHANGED <<fwdVars, envVars>>

\* the process exits of its own accord
ProcExit(s) ==
  /\ proc[s] = "running"
  /\ \E code \in {0, 1} : procCode' = [procCode EXCEPT ![s] = code]
  /\ proc' = [proc EXCEPT ![s] = "exited"]
  /\ UNCHANGED <<pc, sess, invoked, exitStatus, dirState, statSeen, cmdDir,
                 agentListener, authSock, spawnTried, waitErr, pty, ptySize, winCh,
                 winLog, applied, ptyOut, stdinCopy, stdinPipe, sigRelay,
                 streamClosed>>
  /\ UNCHANGED <<sigs, sigLoop, sigHist, exitCalls>>
  /\ UNCHANGED <<fwdVars, envVars>>

\* the configured directory is created, removed or made unreadable
DirChange ==
  /\ \E st \in {"exists", "absent", "error"} :
       /\ st # dirState
       /\ dirState' = st
  /\ UNCHANGED <<pc, sess, invoked, exitStatus, statSeen, cmdDir, agentListener,
                 authSock, spawnTried, proc, procCode, waitErr, pty, ptySize, winCh,
                 winLog, applied, ptyOut, stdinCopy, stdinPipe, sigRelay,
                 streamClosed>>
  /\ UNCHANGED <<sigs, sigLoop, sigHist, exitCalls>>
  /\ UNCHANGED <<fwdVars, envVars>>

(* ------------------------- Forwarding Registry ------------------------- *)

RequestTypes == {"tcpip-forward", "cancel-tcpip-forward",
                 "streamlocal-forward@openssh.com",
                 "cancel-streamlocal-forward@openssh.com"}

\* the two handler objects built at the top of Server.Start
ForwardHandlers == {"forwardedTCPHandler", "unixForwardHandler"}

\* the listener flavor a request type is about, and the addresses of each flavor
KindOf(t) == IF t \in {"tcpip-forward", "cancel-tcpip-forward"} THEN "tcp" ELSE "unix"
AddrsOf(k) == IF k = "tcp" THEN {"0.0.0.0:8080", "0.0.0.0:9090"}
                           ELSE {"/tmp/a.sock", "/tmp/b.sock"}
AllAddrs == AddrsOf("tcp") \cup AddrsOf("unix")
IsOpen(t) == t \in {"tcpip-forward", "streamlocal-forward@openssh.com"}

\* faulty variant: the Unix cancel request is registered on the TCP handler
RequestHandlersCancelMisrouted(t) ==
  IF t = "streamlocal-forward@openssh.com" THEN "unixForwardHandler"
  ELSE "forwardedTCPHandler"

\* the RequestHandlers map of Server.Start: request name -> handler object
RequestHandlers(t) ==
  CASE t = "tcpip-forward" -> "forwardedTCPHandler"
    [] t = "cancel-tcpip-forward" -> "forwardedTCPHandler"
    [] t = "streamlocal-forward@openssh.com" -> "unixForwardHandler"
    [] t = "cancel-streamlocal-forward@openssh.com" -> "unixForwardHandler"

NoRequest == [type |-> "none", addr |-> "none"]

\* a forwarding request arrives on a transport connection and is routed
FwdRequest(c) ==
  /\ cpc[c] = "idle"
  /\ \E t \in RequestTypes : \E a \in AddrsOf(KindOf(t)) :
       creq' = [creq EXCEPT ![c] = [type |-> t, addr |-> a]]
  /\ creply' = [creply EXCEPT ![c] = "none"]
  /\ cpc' = [cpc EXCEPT ![c] = "lock"]
  /\ UNCHANGED <<forwards, lnCount, mutex, cseen, phase, rejected>>
  /\ UNCHANGED <<sessVars, envVars>>

\* faulty variant: the table's lock does not exclude other callers
MayLockAlways(holder) == TRUE

\* the table's lock is free
MayLock(holder) == holder = 0

\* HandleSSHRequest takes the lock of its handler's table
FwdLock(c) ==
  /\ cpc[c] = "lock"
  /\ LET h == RequestHandlers(creq[c].type) IN
       /\ MayLock(mutex[h])
       /\ mutex' = [mutex EXCEPT ![h] = c]
  /\ cpc' = [cpc EXCEPT ![c] = "check"]
  /\ UNCHANGED <<forwards, lnCount, creq, cseen, creply, phase, rejected>>
  /\ UNCHANGED <<sessVars, envVars>>

\* "is this address already listening": the caller looks the address up
FwdCheck(c) ==
  /\ cpc[c] = "check"
  /\ cseen' = [cseen EXCEPT ![c] =
                 creq[c].addr \in forwards[RequestHandlers(creq[c].type)]]
  /\ cpc' = [cpc EXCEPT ![c] = "act"]
  /\ UNCHANGED <<forwards, lnCount, mutex, creq, creply, phase, rejected>>
  /\ UNCHANGED <<sessVars, envVars>>

\* faulty variant: cancelling an address that is not listening is accepted
ReplyCancelAbsentOk(isOpen, seen) == IF isOpen THEN ~seen ELSE TRUE

\* open is accepted iff the address was absent, cancel iff it was listening
Reply(isOpen, seen) == IF isOpen THEN ~seen ELSE seen

\* progress of one address through open, duplicate open, cancel, open again
NextPhase(ph, isOpen, ok) ==
  CASE isOpen /\ ok /\ ph = 3 -> 4
    [] isOpen /\ ok /\ ph # 3 -> 1
    [] isOpen /\ ~ok /\ ph = 1 -> 2
    [] ~isOpen /\ ok /\ ph = 2 -> 3
    [] ~isOpen /\ ok /\ ph # 2 -> 0
    [] OTHER -> ph

\* the address whose progress is followed
Followed == "/tmp/a.sock"

\* the rest of HandleSSHRequest: bind and record, or close and forget, or
\* reject; then unlock and answer the request
FwdAct(c) ==
  /\ cpc[c] = "act"
  /\ LET t == creq[c].type
         a == creq[c].addr
         h == RequestHandlers(t)
         ok == Reply(IsOpen(t), cseen[c])
     IN
       /\ creply' = [creply EXCEPT ![c] = IF ok THEN "accept" ELSE "reject"]
       /\ forwards' = [forwards EXCEPT ![h] =
                         IF ~ok THEN @
                         ELSE IF IsOpen(t) THEN @ \cup {a} ELSE @ \ {a}]
       /\ lnCount' = [lnCount EXCEPT ![a] =
                        IF ~ok THEN @
                        ELSE IF IsOpen(t) THEN @ + 1
                        ELSE IF @ > 0 THEN @ - 1 ELSE @]
       /\ phase' = IF a = Followed THEN NextPhase(phase, IsOpen(t), ok) ELSE phase
       /\ rejected' = IF ok THEN rejected ELSE IF IsOpen(t) THEN "open" ELSE "cancel"
       /\ mutex' = [mutex EXCEPT ![h] = IF @ = c THEN 0 ELSE @]
  /\ cpc' = [cpc EXCEPT ![c] = "idle"]
  /\ creq' = [creq EXCEPT ![c] = NoRequest]
  /\ cseen' = [cseen EXCEPT ![c] = FALSE]
  /\ UNCHANGED <<sessVars, envVars>>

(* ------------------------ process environment ------------------------- *)

\* number of entries in the server's own environment
MaxEnv == 2

\* an environment is a list of <<name, value>> entries, "name=value" in the code
Entry(k, v) == <<k, v>>

\* common.GetShell(): the configured shell path
Shell == "/usr/bin/zsh"

\* terminal types a caller may request, and the address of an agent listener
Terms == {"xterm", "vt100"}
AgentAddr == "/tmp/auth-agent/listener.sock"

\* entries the server's own environment may hold
HostEntries == {Entry("TERM", "dumb"), Entry("SHELL", "/bin/sh"),
                Entry("SSH_AUTH_SOCK", "/run/host-agent.sock"),
                Entry("PATH", "/usr/bin")}
HostEnvs == UNION {[1..n -> HostEntries] : n \in 0..MaxEnv}

NoEnvFor == [handler |-> "none", term |-> "", sock |-> ""]

\* the value a process sees for a name: of several entries the last one wins
\* (os/exec drops all but the last entry of a name), "" if there is none
RECURSIVE Getenv(_, _)
Getenv(env, k) ==
  IF env = <<>> THEN ""
  ELSE IF env[Len(env)][1] = k THEN env[Len(env)][2]
  ELSE Getenv(SubSeq(env, 1, Len(env) - 1), k)

\* handlePty: SSH_AUTH_SOCK if an agent listener was made, then TERM, then
\* os.Environ(), then SHELL
PtyEnv(term, sock, host) ==
  (IF sock # "" THEN <<Entry("SSH_AUTH_SOCK", sock)>> ELSE <<>>)
    \o <<Entry("TERM", term)>> \o host \o <<Entry("SHELL", Shell)>>

\* handleNonPty: os.Environ(), then SSH_AUTH_SOCK if an agent listener was made
NonPtyEnv(sock, host) ==
  host \o (IF sock # "" THEN <<Entry("SSH_AUTH_SOCK", sock)>> ELSE <<>>)

\* handlePty builds the environment of its shell
BuildPtyEnv ==
  /\ \E term \in Terms, sock \in {"", AgentAddr} :
       /\ cmdEnv' = PtyEnv(term, sock, hostEnv)
       /\ envFor' = [handler |-> "handlePty", term |-> term, sock |-> sock]
  /\ UNCHANGED <<hostEnv, sessVars, fwdVars>>

\* handleNonPty builds the environment of its command
BuildNonPtyEnv ==
  /\ \E sock \in {"", AgentAddr} :
       /\ cmdEnv' = NonPtyEnv(sock, hostEnv)
       /\ envFor' = [handler |-> "handleNonPty", term |-> "", sock |-> sock]
  /\ UNCHANGED <<hostEnv, sessVars, fwdVars>>

(* --------------------------- specifications ---------------------------- *)

ServerInit ==
  /\ pc = [s \in Sessions |-> "idle"]
  /\ sess = [s \in Sessions |-> NoSession]
  /\ invoked = [s \in Sessions |-> {}]
  /\ exitStatus = [s \in Sessions |-> NoStatus]
  /\ dirState \in {"exists", "absent"}
  /\ statSeen = [s \in Sessions |-> "none"]
  /\ cmdDir = [s \in Sessions |-> ""]
  /\ agentListener = [s \in Sessions |-> "none"]
  /\ authSock = [s \in Sessions |-> FALSE]
  /\ spawnTried = [s \in Sessions |-> FALSE]
  /\ proc = [s \in Sessions |-> "none"]
  /\ procCode = [s \in Sessions |-> 0]
  /\ waitErr = [s \in Sessions |-> "none"]
  /\ pty = [s \in Sessions |-> "none"]
  /\ ptySize = [s \in Sessions |-> NoSize]
  /\ winCh = [s \in Sessions |-> <<>>]
  /\ winLog = [s \in Sessions |-> <<>>]
  /\ applied = [s \in Sessions |-> <<>>]
  /\ ptyOut = [s \in Sessions |-> FALSE]
  /\ stdinCopy = [s \in Sessions |-> "none"]
  /\ stdinPipe = [s \in Sessions |-> "none"]
  /\ sigRelay = [s \in Sessions |-> FALSE]
  /\ streamClosed = [s \in Sessions |-> FALSE]
  /\ sigs = [s \in Sessions |-> <<>>]
  /\ sigLoop = [s \in Sessions |-> "none"]
  /\ sigHist = [s \in Sessions |-> "none"]
  /\ exitCalls = [s \in Sessions |-> 0]
  /\ forwards = [h \in ForwardHandlers |-> {}]
  /\ lnCount = [a \in AllAddrs |-> 0]
  /\ mutex = [h \in ForwardHandlers |-> 0]
  /\ cpc = [c \in Callers |-> "idle"]
  /\ creq = [c \in Callers |-> NoRequest]
  /\ cseen = [c \in Callers |-> FALSE]
  /\ creply = [c \in Callers |-> "none"]
  /\ phase = 0
  /\ rejected = "none"

\* the sessions and the forwarding requests are followed without the
\* environment their processes are given
Init ==
  /\ ServerInit
  /\ hostEnv = <<>>
  /\ cmdEnv = <<>>
  /\ envFor = NoEnvFor

\* the sessions of one server
Next ==
  \/ \E s \in Sessions : Accept(s)
  \/ \E s \in Sessions : SftpServe(s)
  \/ \E s \in Sessions : PtyStat(s)
  \/ \E s \in Sessions : PtyAgent(s)
  \/ \E s \in Sessions : PtyStart(s)
  \/ \E s \in Sessions : ResizeRelay(s)
  \/ \E s \in Sessions : PtyCopy(s)
  \/ \E s \in Sessions : NonPtyAgent(s)
  \/ \E s \in Sessions : NonPtyStat(s)
  \/ \E s \in Sessions : NonPtyPipe(s)
  \/ \E s \in Sessions : NonPtyStart(s)
  \/ \E s \in Sessions : NonPtyWait(s)
  \/ \E s \in Sessions : SignalRelay(s)
  \/ \E s \in Sessions : SignalRelayEnd(s)
  \/ \E s \in Sessions : StdinCopyEnd(s)
  \/ \E s \in Sessions : SendResize(s)
  \/ \E s \in Sessions : SendSignal(s)
  \/ \E s \in Sessions : CloseStream(s)
  \/ \E s \in Sessions : ProcWrite(s)
  \/ \E s \in Sessions : ProcExit(s)
  \/ DirChange

Spec == Init /\ [][Next]_vars

\* the forwarding requests of the server's connections
FwdNext ==
  \/ \E c \in Callers : FwdRequest(c)
  \/ \E c \in Callers : FwdLock(c)
  \/ \E c \in Callers : FwdCheck(c)
  \/ \E c \in Callers : FwdAct(c)

\* forwarding requests do not touch the filesystem: one initial filesystem
FwdInit == Init /\ dirState = "exists"

FwdSpec == FwdInit /\ [][FwdNext]_vars

\* the environments the handlers build, for every environment of the server
EnvNext == BuildPtyEnv \/ BuildNonPtyEnv

EnvInit ==
  /\ ServerInit
  /\ dirState = "exists"
  /\ hostEnv \in HostEnvs
  /\ cmdEnv = <<>>
  /\ envFor = NoEnvFor

EnvSpec == EnvInit /\ [][EnvNext]_vars

\* The handler's own steps and the goroutines it starts are scheduled fairly.
\* Nothing obliges the caller, the process or the host to act: the process
\* need not write or exit, the caller need not close its stream.
HandlerStep(s) ==
  \/ SftpServe(s)
  \/ PtyStat(s) \/ PtyAgent(s) \/ PtyStart(s) \/ PtyCopy(s)
  \/ NonPtyAgent(s) \/ NonPtyStat(s) \/ NonPtyPipe(s) \/ NonPtyStart(s)
  \/ NonPtyWait(s)

Fairness ==
  /\ \A s \in Sessions : WF_vars(HandlerStep(s))
  /\ \A s \in Sessions : WF_vars(ResizeRelay(s))
  /\ \A s \in Sessions : WF_vars(StdinCopyEnd(s))
  /\ \A s \in Sessions : WF_vars(SignalRelay(s))
  /\ \A s \in Sessions : WF_vars(SignalRelayEnd(s))

FairSpec == Spec /\ Fairness

\* One session of the server, from its dispatch to the end of its goroutines:
\* what a handler does after it was called depends on no other session.
FirstSession == 1

SessionNext ==
  \/ Accept(FirstSession)
  \/ \E s \in Sessions : SftpServe(s)
  \/ \E s \in Sessions : PtyStat(s)
  \/ \E s \in Sessions : PtyAgent(s)
  \/ \E s \in Sessions : PtyStart(s)
  \/ \E s \in Sessions : ResizeRelay(s)
  \/ \E s \in Sessions : PtyCopy(s)
  \/ \E s \in Sessions : NonPtyAgent(s)
  \/ \E s \in Sessions : NonPtyStat(s)
  \/ \E s \in Sessions : NonPtyPipe(s)
  \/ \E s \in Sessions : NonPtyStart(s)
  \/ \E s \in Sessions : NonPtyWait(s)
  \/ \E s \in Sessions : SignalRelay(s)
  \/ \E s \in Sessions : SignalRelayEnd(s)
  \/ \E s \in Sessions : StdinCopyEnd(s)
  \/ \E s \in Sessions : SendResize(s)
  \/ \E s \in Sessions : SendSignal(s)
  \/ \E s \in Sessions : CloseStream(s)
  \/ \E s \in Sessions : ProcWrite(s)
  \/ \E s \in Sessions : ProcExit(s)
  \/ DirChange

FairSessionSpec == Init /\ [][SessionNext]_vars /\ Fairness

(* ------------------------------ properties ----------------------------- *)

Live(s) == pc[s] \notin {"idle", "retired"}
Interactive(s) ==
  sess[s].subsystem = "" /\ sess[s].isPty /\ sess[s].rawCommand = ""
ShellHandlers == {"handlePty", "handleNonPty"}

\* C1: a new session takes the interactive path iff its subsystem name is
\* empty, a pty was requested and the raw command is empty; every other
\* session with an empty subsystem name takes the one-shot path; exactly one
\* of the two handlers is invoked for a session with an empty subsystem name.
C1_Dispatch ==
  \A s \in Sessions : Live(s) =>
    /\ ("handlePty" \in invoked[s]) <=> Interactive(s)
    /\ (sess[s].subsystem = "" /\ ~Interactive(s)) => invoked[s] = {"handleNonPty"}
    /\ sess[s].subsystem = "" => Cardinality(invoked[s] \cap ShellHandlers) = 1
    /\ pc[s] \in {"pty_stat", "pty_agent", "pty_start", "pty_copy"} => Interactive(s)
    /\ pc[s] \in {"np_agent", "np_stat", "np_pipe", "np_start", "np_wait"}
         => sess[s].subsystem = "" /\ ~Interactive(s)

\* an interactive session with its shell running on a pty
C1_Witness ==
  \E s \in Sessions : Interactive(s) /\ invoked[s] = {"handlePty"} /\ pty[s] = "open"

\* C2: a session whose subsystem name is neither empty nor "sftp" gets a
\* failure exit status and is over at once; no process, pty or agent listener
\* is ever created for it.
C2_UnknownSubsystem ==
  \A s \in Sessions : (Live(s) /\ sess[s].subsystem \notin {"", "sftp"}) =>
    /\ exitStatus[s] = 1
    /\ pc[s] = "done"
    /\ invoked[s] = {}
    /\ ~spawnTried[s] /\ proc[s] = "none" /\ pty[s] = "none"
    /\ agentListener[s] = "none"

\* a session asking for an unknown subsystem with a pty and agent forwarding
C2_Witness ==
  \E s \in Sessions :
    /\ sess[s].subsystem = "other" /\ sess[s].isPty /\ sess[s].agentRequested
    /\ pc[s] = "done" /\ exitStatus[s] = 1

NonPtyDone(s) == pc[s] = "done" /\ invoked[s] = {"handleNonPty"}
StartFailed(s) == spawnTried[s] /\ proc[s] = "none"

\* C3 as stated: on the one-shot path a command that exits with status 0
\* yields exit status 0, and a command that fails to start or exits nonzero
\* yields exit status 127.
C3_AsStated ==
  \A s \in Sessions : NonPtyDone(s) =>
    /\ (proc[s] = "reaped" /\ procCode[s] = 0) => exitStatus[s] = 0
    /\ (StartFailed(s) \/ (proc[s] = "reaped" /\ procCode[s] # 0))
         => exitStatus[s] = 127

\* C3 amended: on the one-shot path a started command whose wait returns no
\* error (it exited with status 0 and its output was copied without error)
\* yields exit status 0; a started command whose wait returns an error (a
\* nonzero exit, or an error copying its output) yields 127; a command that
\* was never started yields no exit status at all.
C3_ExitStatus ==
  \A s \in Sessions : NonPtyDone(s) =>
    /\ waitErr[s] = "nil" => (exitStatus[s] = 0 /\ procCode[s] = 0)
    /\ waitErr[s] \in {"exit", "io"} => exitStatus[s] = 127
    /\ (proc[s] = "reaped" /\ procCode[s] # 0) => exitStatus[s] = 127
    /\ proc[s] = "reaped" <=> waitErr[s] # "none"
    /\ proc[s] = "reaped" <=> exitStatus[s] \in {0, 127}
    /\ proc[s] = "none" <=> exitStatus[s] = NoStatus

\* a one-shot command that exited nonzero and was reported as 127
C3_Witness ==
  \E s \in Sessions :
    NonPtyDone(s) /\ proc[s] = "reaped" /\ procCode[s] # 0 /\ exitStatus[s] = 127

\* C4: on the one-shot path, when the process cannot be started (the stdin
\* pipe or the start call fails) the handler ends without reporting an exit
\* status, and no signal relay is registered: a relay exists only for a
\* session whose process was started.
C4_NoStartNoStatus ==
  \A s \in Sessions :
    /\ sigRelay[s] => proc[s] \in {"running", "exited"}
    /\ (NonPtyDone(s) /\ proc[s] = "none") =>
         (exitStatus[s] = NoStatus /\ ~sigRelay[s] /\ waitErr[s] = "none")

\* a one-shot session whose start call failed, after its stdin pipe was set up
C4_Witness ==
  \E s \in Sessions :
    NonPtyDone(s) /\ StartFailed(s) /\ stdinPipe[s] # "none"
      /\ agentListener[s] # "failed"

Released(s) ==
  /\ pc[s] \in {"done", "retired"}
  /\ pty[s] # "open"
  /\ proc[s] # "running"
  /\ agentListener[s] # "open"

\* C5 as stated: once the caller has closed the session stream while the
\* session's process is running, the pty, the process and the agent listener
\* are eventually released and the handler returns, whether or not the
\* process exits by itself.
C5_AsStated ==
  \A s \in Sessions :
    (streamClosed[s] /\ proc[s] = "running" /\ pc[s] \in {"pty_copy", "np_wait"})
      ~> Released(s)

\* the listener flavor's own table, and whether an address has a live listener
TableOf(k) == IF k = "tcp" THEN "forwardedTCPHandler" ELSE "unixForwardHandler"
Listening(a) == lnCount[a] > 0

\* the step in which caller c's request is decided and answered
Decides(c) == cpc[c] = "act" /\ cpc'[c] = "idle"

\* no address is bound twice, and each flavor's table records exactly the
\* addresses of that flavor that have a live listener
OneListenerPerAddress ==
  /\ \A a \in AllAddrs : lnCount[a] <= 1
  /\ \A k \in {"tcp", "unix"} : forwards[TableOf(k)] = {a \in AddrsOf(k) : Listening(a)}

\* open(A) on a listening address is rejected and leaves its one listener;
\* open(A) on an absent address is accepted and leaves one listener;
\* cancel(A) on a listening address is accepted and removes the listener
OpenCancelStep ==
  \A c \in Callers : Decides(c) =>
    LET a == creq[c].addr IN
    IF IsOpen(creq[c].type)
    THEN /\ creply'[c] = (IF Listening(a) THEN "reject" ELSE "accept")
         /\ lnCount'[a] = 1
         /\ a \in forwards'[TableOf(KindOf(creq[c].type))]
    ELSE Listening(a) =>
           /\ creply'[c] = "accept"
           /\ lnCount'[a] = 0
           /\ a \notin forwards'[TableOf(KindOf(creq[c].type))]

\* C6: for every bind address A of either flavor and under every interleaving
\* of concurrent callers: a second open(A) fails with a conflict and leaves
\* exactly one listener recorded for A (no address is ever bound twice),
\* cancel(A) then succeeds and removes the listener, and a later open(A)
\* succeeds again.
C6_OpenCancel == []OneListenerPerAddress /\ [][OpenCancelStep]_vars

\* the followed address went through open, rejected open, cancel, open again,
\* while a TCP address is listening too
C6_Witness ==
  /\ phase = 4
  /\ Listening(Followed)
  /\ \E a \in AddrsOf("tcp") : Listening(a)

\* a rejected request changes neither table nor any listener; cancel(A) on an
\* address that is not listening is rejected
RejectStep ==
  \A c \in Callers : Decides(c) =>
    /\ (~IsOpen(creq[c].type) /\ ~Listening(creq[c].addr)) => creply'[c] = "reject"
    /\ creply'[c] = "reject" => (forwards' = forwards /\ lnCount' = lnCount)
    /\ \A b \in AllAddrs \ {creq[c].addr} : lnCount'[b] = lnCount[b]

\* C7: cancel(A) for an address that is not listening is rejected, and a
\* rejected request (duplicate open or cancel of an absent address) leaves the
\* table and every other address's listener unchanged.
C7_Rejections == [][RejectStep]_vars

\* a cancel was rejected while another address of the same table is listening
C7_Witness ==
  /\ rejected = "cancel"
  /\ \E h \in ForwardHandlers : forwards[h] # {}
  /\ \E c \in Callers : creply[c] = "reject"

IsPrefix(p, q) ==
  /\ Len(p) <= Len(q)
  /\ \A i \in 1..Len(p) : p[i] = q[i]

\* C8: on an active interactive session the resize events are applied to the
\* pty in the order they were received, each once: what was applied is a
\* prefix of what was sent, what is still queued is the rest, and the pty's
\* geometry is the most recently applied event.
C8_ResizeOrder ==
  \A s \in Sessions :
    /\ IsPrefix(applied[s], winLog[s])
    /\ pty[s] \in {"none", "open"} =>
         winCh[s] = SubSeq(winLog[s], Len(applied[s]) + 1, Len(winLog[s]))
    /\ (pty[s] = "open" /\ applied[s] # <<>>) =>
         ptySize[s] = applied[s][Len(applied[s])]
    /\ (pty[s] = "open" /\ applied[s] = <<>>) => ptySize[s] = NoSize

\* two different resize events were applied, in the order sent, to a live pty
C8_Witness ==
  \E s \in Sessions :
    /\ pty[s] = "open"
    /\ Len(applied[s]) = 2
    /\ applied[s][1] # applied[s][2]
    /\ ptySize[s] = applied[s][2]

\* C9 as stated: when agent forwarding is requested and the agent listener
\* cannot be created, the handler still goes on to spawn the process.
C9_AsStated ==
  \A s \in Sessions :
    (agentListener[s] = "failed" /\ pc[s] = "done") => spawnTried[s]

\* C10: the working directory of a session's process is the configured
\* directory if it exists when that session's handler looks, and the fallback
\* directory if it is absent; each session looks for itself, so sessions that
\* found different things keep different directories.
C10_WorkDir ==
  \A s \in Sessions :
    /\ statSeen[s] = "exists" => cmdDir[s] = WorkspaceDir
    /\ statSeen[s] = "absent" => cmdDir[s] = DefaultWorkspaceDir
    /\ spawnTried[s] => statSeen[s] # "none"
    /\ statSeen[s] = "none" => cmdDir[s] = ""

\* the directory vanished between two sessions: the first keeps the
\* configured directory, the second, running its process, has the fallback
C10_Witness ==
  \E s1, s2 \in Sessions :
    /\ s1 < s2
    /\ statSeen[s1] = "exists" /\ cmdDir[s1] = WorkspaceDir
    /\ statSeen[s2] = "absent" /\ cmdDir[s2] = DefaultWorkspaceDir
    /\ proc[s2] = "running"

\* a step of the signal relay goroutine of session s
RelaySignalStep(s) ==
  /\ sigLoop[s] = "running" /\ sigs[s] # <<>> /\ sigs'[s] = Tail(sigs[s])
  /\ pc'[s] # "retired"

\* what the relay does with one signal: it stays in its loop, and touches
\* neither the handler's position nor the status reported to the caller
RelayGoesOn ==
  \A s \in Sessions : RelaySignalStep(s) =>
    /\ sigLoop'[s] = "running"
    /\ pc' = pc /\ exitStatus' = exitStatus /\ proc' = proc

\* as long as signals can arrive the relay takes them, and the status of a
\* session where a signal was not delivered is the one the wait determines
RelayAlive ==
  \A s \in Sessions :
    /\ sigRelay[s] => sigLoop[s] = "running"
    /\ sigLoop[s] = "ended" => (pc[s] = "done" /\ ~sigRelay[s])
    /\ (NonPtyDone(s) /\ sigHist[s] # "none") =>
         exitStatus[s] = (IF waitErr[s] = "nil" THEN 0 ELSE 127)

\* C11: on the one-shot path a signal the translator does not know, or one
\* that cannot be delivered, never ends the signal relay or the session: the
\* relay keeps taking later signals while the process runs, and the exit
\* status is the one the process wait determines.
C11_RelaySurvives == []RelayAlive /\ [][RelayGoesOn]_vars

\* a signal was not delivered, a later one was delivered to the running
\* process, and the command then completed with status 0
C11_Witness ==
  \E s \in Sessions :
    NonPtyDone(s) /\ sigHist[s] = "recovered" /\ exitStatus[s] = 0

\* C12 as stated: on the interactive path the pty is closed and the process is
\* terminated and reaped before the handler returns, on every exit path after
\* they were created, the path where the copy ends with a write error because
\* the caller's stream closed included.
C12_AsStated ==
  \A s \in Sessions :
    (pc[s] = "done" /\ invoked[s] = {"handlePty"} /\ pty[s] # "none") =>
      (pty[s] = "closed" /\ proc[s] = "reaped")

\* C13 as stated: on the one-shot path the process's stdin pipe is closed
\* whenever the background copy from the session has ended, at end-of-stream
\* and on error alike.
C13_AsStated ==
  \A s \in Sessions :
    (invoked[s] = {"handleNonPty"} /\ stdinCopy[s] = "ended") =>
      stdinPipe[s] = "closed"

\* C14: an agent listener created for a session is closed by the time the
\* session's handler returns, on every return path of both handlers (pty
\* start failure, stdin pipe failure, command start failure, wait failure,
\* normal completion): no agent listener outlives its handler.
C14_ListenerClosed ==
  \A s \in Sessions :
    /\ pc[s] \in {"done", "retired", "idle"} => agentListener[s] # "open"
    /\ (pc[s] = "done" /\ authSock[s]) => agentListener[s] = "closed"
    /\ agentListener[s] # "none" => (OnShellPath(s) /\ sess[s].agentRequested)

\* a one-shot session with agent forwarding whose wait failed (status 127):
\* the handler has returned and the listener is closed
C14_Witness ==
  \E s \in Sessions :
    NonPtyDone(s) /\ authSock[s] /\ exitStatus[s] = 127 /\ agentListener[s] = "closed"

\* a session has a pty exactly when it was dispatched interactively and its
\* start succeeded; a process belongs to a session on one of the shell paths
PtyIffInteractive ==
  \A s \in Sessions :
    /\ pty[s] # "none" <=> (Interactive(s) /\ proc[s] # "none")
    /\ pty[s] # "none" => invoked[s] = {"handlePty"}
    /\ ~Interactive(s) => pty[s] = "none"
    /\ proc[s] # "none" => (spawnTried[s] /\ OnShellPath(s))

\* a process is created for a session at most once: only by the session's
\* first start call, and never again after that
SpawnOnce ==
  \A s \in Sessions :
    /\ (proc[s] # "running" /\ proc'[s] = "running") =>
         (proc[s] = "none" /\ ~spawnTried[s] /\ spawnTried'[s])
    /\ (spawnTried[s] /\ pc'[s] # "retired") => spawnTried'[s]

\* C15: in every reachable state each session has at most one process handle,
\* and has a pty iff it was dispatched interactively (pty requested, empty
\* command) and its start succeeded; one-shot, sftp and unknown-subsystem
\* sessions never have a pty.
C15_Handles == []PtyIffInteractive /\ [][SpawnOnce]_vars

\* an interactive session whose shell runs on its pty and has written output
C15_Witness ==
  \E s \in Sessions :
    Interactive(s) /\ proc[s] = "running" /\ pty[s] = "open" /\ ptyOut[s]

\* the foreground copy reads output from the live pty and passes it on
PtyReadStep(s) ==
  /\ pc[s] = "pty_copy" /\ pty[s] = "open" /\ ptyOut[s]
  /\ pc'[s] = "pty_copy" /\ ~ptyOut'[s]

Last(q) == q[Len(q)]

\* C16 as stated: once the caller has sent a resize event, the pty geometry
\* is that size before the handler's next read of pty output, under every
\* interleaving of the resize relay with the foreground copy.
C16_AsStated ==
  [][\A s \in Sessions :
       (PtyReadStep(s) /\ winLog[s] # <<>>) => ptySize[s] = Last(winLog[s])]_vars

\* at a read of pty output the geometry is the latest event the relay applied,
\* and the events sent since are still queued in the order sent
ReadSeesApplied ==
  \A s \in Sessions : PtyReadStep(s) =>
    /\ ptySize[s] = (IF applied[s] = <<>> THEN NoSize ELSE Last(applied[s]))
    /\ applied[s] \o winCh[s] = winLog[s]
    /\ UNCHANGED <<ptySize, applied, winCh>>

\* C16 amended: the resize relay runs concurrently with the foreground copy,
\* without synchronisation: at every read of pty output the geometry is the
\* latest resize event the relay has applied so far (the initial geometry if
\* none), and every event sent but not yet applied is still queued, in order,
\* to be applied later; a read may thus happen before a sent resize is applied.
C16_ReadSeesApplied == [][ReadSeesApplied]_vars

\* output is ready to be read while one resize was applied and a different,
\* later one is still queued
C16_Witness ==
  \E s \in Sessions :
    /\ pc[s] = "pty_copy" /\ pty[s] = "open" /\ ptyOut[s]
    /\ Len(applied[s]) = 1 /\ Len(winCh[s]) = 1
    /\ winCh[s][1] # applied[s][1]
    /\ ptySize[s] = applied[s][1]

\* the handler of an interactive session reports no exit status, and the pty
\* is closed only by the handler's return
InteractiveNoStatus ==
  \A s \in Sessions :
    /\ invoked[s] = {"handlePty"} => (exitStatus[s] = NoStatus /\ exitCalls[s] = 0)
    /\ pty[s] = "closed" => (pc[s] = "done" /\ invoked[s] = {"handlePty"})

\* once the pty is closed, nothing changes its geometry any more: a resize
\* event that arrives later is taken from the queue and dropped
ClosedPtyKeepsSize ==
  \A s \in Sessions : (pty[s] = "closed" /\ pc'[s] # "retired") =>
    /\ ptySize'[s] = ptySize[s]
    /\ applied'[s] = applied[s]
    /\ pty'[s] = "closed"

\* C17: on the interactive path, once the shell has exited the foreground
\* copy ends and the handler eventually returns, even if the caller never
\* closes its stream and the background input copy is still blocked; the
\* handler reports no exit status for an interactive session, and resize
\* events arriving after the pty closed have no effect.
C17_PtyClosureEnds ==
  /\ \A s \in Sessions :
       (pc[s] = "pty_copy" /\ proc[s] = "exited") ~> (pc[s] \in {"done", "retired"})
  /\ []InteractiveNoStatus
  /\ [][ClosedPtyKeepsSize]_vars

\* the shell exited and the handler returned while the caller's stream is
\* still open and the input copy still blocked; a resize sent after that was
\* taken from the queue without being applied
C17_Witness ==
  \E s \in Sessions :
    /\ invoked[s] = {"handlePty"} /\ pc[s] = "done" /\ pty[s] = "closed"
    /\ proc[s] = "exited" /\ ~streamClosed[s] /\ stdinCopy[s] = "running"
    /\ exitStatus[s] = NoStatus
    /\ winCh[s] = <<>> /\ Len(applied[s]) < Len(winLog[s])

\* C18 as stated: under last-assignment-wins, every variable the handler sets
\* is the value the process sees, whatever the server's own environment
\* holds: TERM is the requested terminal type and SHELL the configured shell
\* on the interactive path, and on both paths with agent forwarding active
\* SSH_AUTH_SOCK is the address of the session's own agent listener.
C18_AsStated ==
  /\ envFor.handler = "handlePty" =>
       /\ Getenv(cmdEnv, "TERM") = envFor.term
       /\ Getenv(cmdEnv, "SHELL") = Shell
  /\ (envFor.handler # "none" /\ envFor.sock # "") =>
       Getenv(cmdEnv, "SSH_AUTH_SOCK") = envFor.sock

\* a status is reported by one session.Exit call, on the one-shot path only
\* after the wait; the relay and its channel exist only for a started process
ExitOnceAfterWait ==
  \A s \in Sessions :
    /\ exitCalls[s] <= 1
    /\ exitCalls[s] = 1 <=> exitStatus[s] # NoStatus
    /\ (invoked[s] = {"handleNonPty"} /\ exitStatus[s] # NoStatus) =>
         (proc[s] = "reaped" /\ waitErr[s] # "none" /\ pc[s] = "done")
    /\ (sigLoop[s] # "none" \/ sigs[s] # <<>> \/ sigHist[s] # "none") =>
         (spawnTried[s] /\ proc[s] # "none")

\* a reported status is never reported again or changed, and the relay
\* signals a process only after it was started
ExitKept ==
  \A s \in Sessions :
    /\ (exitStatus[s] # NoStatus /\ pc'[s] # "retired") =>
         (exitStatus'[s] = exitStatus[s] /\ exitCalls'[s] = exitCalls[s])
    /\ RelaySignalStep(s) => proc[s] \in {"running", "exited", "reaped"}

\* C19: over any execution of a session's handler an exit status is reported
\* at most once; on the one-shot path only after the wait for the process has
\* completed, never while it runs; and signals are only ever delivered to a
\* process that was successfully started.
C19_ExitOnce == []ExitOnceAfterWait /\ [][ExitKept]_vars

\* a one-shot command was signalled without success, its output could not be
\* copied, and the one status reported after the wait is 127
C19_Witness ==
  \E s \in Sessions :
    /\ NonPtyDone(s) /\ exitCalls[s] = 1 /\ exitStatus[s] = 127
    /\ waitErr[s] = "io" /\ sigHist[s] = "failed"

\* the caller has its status, the handler has returned, and the relay is
\* unregistered and has left its loop
NonPtyOver(s) ==
  /\ pc[s] = "done" /\ exitStatus[s] \in {0, 127}
  /\ ~sigRelay[s] /\ sigLoop[s] = "ended"

\* C20: on the one-shot path, once a started process terminates the caller
\* eventually observes exit status 0 or 127 and the handler returns with the
\* signal relay unregistered and stopped, even if the caller never closes its
\* input stream and the background stdin copy is still blocked.
C20_NonPtyEnds ==
  \A s \in Sessions :
    (pc[s] = "np_wait" /\ proc[s] = "exited") ~> NonPtyOver(s)

\* a one-shot session is over while the caller's stream is still open and the
\* input copy still blocked; the relay had a signal to take on the way
C20_Witness ==
  \E s \in Sessions :
    /\ NonPtyOver(s) /\ proc[s] = "reaped"
    /\ ~streamClosed[s] /\ stdinCopy[s] = "running"
    /\ sigHist[s] # "none"

====
